---- MODULE Spec2Model ----
(***************************************************************************)
(* Slot reservation server of api_chargecar (Express + Sequelize).        *)
(* The state is the two tables the handlers touch (vaga, veiculo) and,    *)
(* for every request handler, its position between its awaited storage    *)
(* calls together with its local variables and the response it sent last. *)
(* Every await is a suspension point: one action models the code from one *)
(* await up to the next one (or up to the response).                      *)
(*                                                                         *)
(* Spec          the server of src/unnamed/part_002 (same reservation     *)
(*               chain as part_001), MaxReqs handlers interleaved         *)
(* SpecSeq       the same server, one request at a time                   *)
(* SpecRaceVaga  two Reserve calls racing for one free slot               *)
(* SpecRacePlaca two Reserve calls racing with one plate for two slots    *)
(* SpecApi       the server of src/api/index.js                           *)
(***************************************************************************)
EXTENDS Integers, Sequences, FiniteSets, TLC

\* ---------------------------------------------------------------- bounds
MaxReqs == 2          \* request handlers that may be in flight together
MaxVagaId == 2        \* requests address the slots 1..MaxVagaId (and one missing id)

\* ------------------------------------------------------ program constants
NumVagas == 15        \* createInitialVagas: Array.from({ length: 15 })
PlacaLen == 7         \* isLength({ min: 7, max: 7 })
MissingVagaId == NumVagas + 1  \* an id no row of table vaga has

Reqs == 1..MaxReqs
\* ids bulkCreate gives the rows of a fresh table (AUTO_INCREMENT from 1)
ProvisionedIds == 1..NumVagas
Users == {1, 2}
NoToken == 0          \* request without a valid Bearer token
Null == "null"
NoOwner == -1         \* user_id of a plate that has no row in table veiculo
\* what findByPk / findOne answer when no row matches
NoVaga == [id |-> 0, nome |-> Null, ocupada |-> FALSE, placa |-> Null]

\* plates as they are stored (trimmed, upper case, 7 characters)
Placas == {"ABC1234", "XYZ9876", "QRS5555"}
\* plates as they arrive in req.body.placa
RawPlacas == Placas \cup {" abc1234", "AB12"}
\* ids as they arrive in req.params.id
ParamIds == (1..MaxVagaId) \cup {MissingVagaId}

VARIABLES vagas, veiculos, pc, req, vagaAlvo, res, server

vars == <<vagas, veiculos, pc, req, vagaAlvo, res, server>>

\* ids of the rows table vaga holds
VagaIds == DOMAIN vagas

\* ------------------------------------------------------------ the models
\* faulty variant of the row below: the names count from zero
NewVagaZeroBased(i) == [id |-> i, nome |-> "Vaga " \o ToString(i - 1),
                        ocupada |-> FALSE, placa |-> Null]

\* Vaga.bulkCreate([{ nome: `Vaga ${i + 1}` }]): ocupada defaults to false,
\* placa to NULL.
NewVaga(i) ==
    [id |-> i, nome |-> "Vaga " \o ToString(i), ocupada |-> FALSE, placa |-> Null]

\* body('placa').trim().toUpperCase()
NormalizePlaca(raw) == IF raw = " abc1234" THEN "ABC1234" ELSE raw

\* .isLength({ min: 7, max: 7 })
ValidPlaca(p) == Len(p) = PlacaLen

\* faulty variant of the lookup below: the user_id condition is forgotten
FindVeiculoAnyUser(placa, userId) ==
    IF placa \in DOMAIN veiculos /\ veiculos[placa] # <<>> THEN placa ELSE Null

\* Veiculo.findOne({ where: { placa, user_id } })
FindVeiculoDoUsuario(placa, userId) ==
    IF placa \in DOMAIN veiculos
          /\ \E k \in DOMAIN veiculos[placa] : veiculos[placa][k] = userId
    THEN placa ELSE Null

\* Veiculo.findOne({ where: { placa } })
FindVeiculo(placa) ==
    IF placa \in DOMAIN veiculos /\ veiculos[placa] # <<>> THEN placa ELSE Null

\* the user_id of the row Veiculo.findOne({ where: { placa } }) returns (the
\* first row of that plate), NoOwner when it returns null
UserId(placa) ==
    IF placa \in DOMAIN veiculos /\ veiculos[placa] # <<>>
    THEN Head(veiculos[placa]) ELSE NoOwner

\* Vaga.findOne({ where: { placa, ocupada: true, id: { [Op.ne]: vagaId } } })
OutrasVagasComPlaca(placa, vagaId) ==
    {i \in VagaIds : vagas[i].ocupada /\ vagas[i].placa = placa /\ i # vagaId}

\* faulty variant of the lookup below: a missing id falls back to the first row
FindByPkOrFirst(vagaId) == IF vagaId \in VagaIds THEN vagas[vagaId] ELSE vagas[1]

\* Vaga.findByPk(vagaId)
FindByPk(vagaId) == IF vagaId \in VagaIds THEN vagas[vagaId] ELSE NoVaga

\* faulty variant of the write below: only the ocupada column is written
SaveRowOcupadaOnly(row, loaded, ocupada, placa) == [row EXCEPT !.ocupada = ocupada]

\* instance.save(): one UPDATE ... WHERE id = pk that sets the attributes
\* whose value differs from the one the instance was loaded with.
SaveRow(row, loaded, ocupada, placa) ==
    [row EXCEPT !.ocupada = IF loaded.ocupada # ocupada THEN ocupada ELSE @,
                !.placa   = IF loaded.placa # placa THEN placa ELSE @]

\* faulty variant of the write below: the plate is never written
SaveWithoutPlaca(loaded, ocupada, placa) ==
    [vagas EXCEPT ![loaded.id] = SaveRow(@, loaded, ocupada, loaded.placa)]

Save(loaded, ocupada, placa) ==
    [vagas EXCEPT ![loaded.id] = SaveRow(@, loaded, ocupada, placa)]

\* HTTP status of every outcome the handlers answer with
StatusOf(kind) ==
    CASE kind = "Success" -> 200
      [] kind \in {"ValidationError", "SlotOccupied", "AlreadyFree"} -> 400
      [] kind = "Unauthenticated" -> 401
      [] kind \in {"OwnershipConflict", "NotAuthorizedToRelease"} -> 403
      [] kind \in {"VehicleNotFound", "SlotNotFound"} -> 404
      [] kind \in {"PlateAlreadyElsewhere", "AlreadyReservedBySelf"} -> 409
      [] kind = "Created" -> 201
      [] kind = "VehicleExists" -> 409
      [] OTHER -> 500

NoReq == [kind |-> "none", userId |-> NoToken, placa |-> Null, vagaId |-> 0]
NoRes == [op |-> "none", kind |-> "none", vaga |-> NoVaga, affectedRows |-> 0,
          lista |-> <<>>]

\* count of createInitialVagas before Vaga.count() has returned
NoCount == -1

\* startServer: where the process stands (phase), which of its awaited calls
\* raised (erro, what console.error reports), process.env.RESET_VAGAS_ON_STARTUP
\* === 'true', and the count createInitialVagas read.  Here app.listen has
\* been reached on a provisioned table.
Listening == [phase |-> "listening", erro |-> "none",
              resetVagasOnStartup |-> FALSE, count |-> NumVagas]

\* ------------------------------------------------------------------ Init
\* The server is listening on a freshly provisioned database; two vehicles
\* are registered, one per user, the third plate has no record.  veiculos[p]
\* lists the user_id of the rows of table veiculo with plate p, oldest first.
InitVeiculos == [p \in Placas |->
    CASE p = "ABC1234" -> <<1>> [] p = "XYZ9876" -> <<2>> [] OTHER -> <<>>]

Init ==
    /\ vagas = [i \in ProvisionedIds |-> NewVaga(i)]
    /\ veiculos = InitVeiculos
    /\ pc = [r \in Reqs |-> "idle"]
    /\ req = [r \in Reqs |-> NoReq]
    /\ vagaAlvo = [r \in Reqs |-> NoVaga]
    /\ res = [r \in Reqs |-> NoRes]
    /\ server = Listening

\* --------------------------------------------------------- handler steps
\* the handler suspends at its next await, holding the instance it loaded
Goto(r, label, vaga) ==
    /\ pc' = [pc EXCEPT ![r] = label]
    /\ vagaAlvo' = [vagaAlvo EXCEPT ![r] = vaga]
    /\ UNCHANGED <<req, res>>

\* res.status(..).json(..): the handler returns and its locals are gone
RespondTo(r, op, kind, vaga) ==
    /\ pc' = [pc EXCEPT ![r] = "idle"]
    /\ req' = [req EXCEPT ![r] = NoReq]
    /\ vagaAlvo' = [vagaAlvo EXCEPT ![r] = NoVaga]
    /\ res' = [res EXCEPT ![r] = [op |-> op, kind |-> kind, vaga |-> vaga,
                                  affectedRows |-> 0, lista |-> <<>>]]

Respond(r, kind, vaga) == RespondTo(r, req[r].kind, kind, vaga)

\* catch (error) { res.status(500) }
Catch(r) ==
    /\ Respond(r, "InfrastructureError", NoVaga)
    /\ UNCHANGED <<vagas, veiculos, server>>

\* authenticateJWT, the validation chain and the handler's prologue
StartReservar(r) ==
    /\ pc[r] = "idle"
    /\ \E token \in Users \cup {NoToken}, raw \in RawPlacas, id \in ParamIds :
         LET placa == NormalizePlaca(raw) IN
         IF token = NoToken THEN RespondTo(r, "reservar", "Unauthenticated", NoVaga)
         ELSE IF ~ValidPlaca(placa)
         THEN RespondTo(r, "reservar", "ValidationError", NoVaga)
         ELSE /\ pc' = [pc EXCEPT ![r] = "veiculoDoUsuario"]
              /\ req' = [req EXCEPT ![r] = [kind |-> "reservar", userId |-> token,
                                            placa |-> placa, vagaId |-> id]]
              /\ res' = [res EXCEPT ![r] = NoRes]
              /\ vagaAlvo' = vagaAlvo
    /\ UNCHANGED <<vagas, veiculos, server>>

\* faulty variant of the step below: the chain goes on whoever owns the plate
VeiculoDoUsuarioStepUnchecked(r, next) ==
    /\ pc[r] = "veiculoDoUsuario"
    /\ \E ok \in BOOLEAN :
         IF ~ok THEN Catch(r)
         ELSE /\ Goto(r, next, NoVaga)
              /\ UNCHANGED <<vagas, veiculos, server>>

\* const veiculoDoUsuario = await Veiculo.findOne(...); if (!veiculoDoUsuario)
VeiculoDoUsuarioStep(r, next) ==
    /\ pc[r] = "veiculoDoUsuario"
    /\ \E ok \in BOOLEAN :
         IF ~ok THEN Catch(r)
         ELSE /\ IF FindVeiculoDoUsuario(req[r].placa, req[r].userId) = Null
                 THEN Goto(r, "veiculoExiste", NoVaga)
                 ELSE Goto(r, next, NoVaga)
              /\ UNCHANGED <<vagas, veiculos, server>>

ReservarVeiculoDoUsuario(r) == VeiculoDoUsuarioStep(r, "outraVaga")

\* const veiculoExiste = await Veiculo.findOne({ where: { placa } }); 403 / 404
ReservarVeiculoExiste(r) ==
    /\ pc[r] = "veiculoExiste"
    /\ \E ok \in BOOLEAN :
         IF ~ok THEN Catch(r)
         ELSE /\ IF FindVeiculo(req[r].placa) # Null
                 THEN Respond(r, "OwnershipConflict", NoVaga)
                 ELSE Respond(r, "VehicleNotFound", NoVaga)
              /\ UNCHANGED <<vagas, veiculos, server>>

\* faulty variant of the step below: the plate is not looked up in the other slots
ReservarOutraVagaSkipped(r) ==
    /\ pc[r] = "outraVaga"
    /\ \E ok \in BOOLEAN :
         IF ~ok THEN Catch(r)
         ELSE /\ Goto(r, "vagaAlvo", NoVaga)
              /\ UNCHANGED <<vagas, veiculos, server>>

\* const outraVagaComMesmaPlaca = await Vaga.findOne(...); 409
ReservarOutraVaga(r) ==
    /\ pc[r] = "outraVaga"
    /\ \E ok \in BOOLEAN :
         IF ~ok THEN Catch(r)
         ELSE /\ IF OutrasVagasComPlaca(req[r].placa, req[r].vagaId) # {}
                 THEN Respond(r, "PlateAlreadyElsewhere", NoVaga)
                 ELSE Goto(r, "vagaAlvo", NoVaga)
              /\ UNCHANGED <<vagas, veiculos, server>>

\* faulty variant of the step below: re-reserving one's own slot answers 200
ReservarVagaAlvoIdempotent(r) ==
    /\ pc[r] = "vagaAlvo"
    /\ \E ok \in BOOLEAN :
         IF ~ok THEN Catch(r)
         ELSE LET vaga == FindByPk(req[r].vagaId) IN
              /\ IF vaga = NoVaga THEN Respond(r, "SlotNotFound", NoVaga)
                 ELSE IF vaga.ocupada
                 THEN IF vaga.placa = req[r].placa
                      THEN Respond(r, "Success", vaga)
                      ELSE Respond(r, "SlotOccupied", NoVaga)
                 ELSE Goto(r, "save", vaga)
              /\ UNCHANGED <<vagas, veiculos, server>>

\* faulty variant of the step below: a slot held by another plate is not refused
ReservarVagaAlvoTakesOver(r) ==
    /\ pc[r] = "vagaAlvo"
    /\ \E ok \in BOOLEAN :
         IF ~ok THEN Catch(r)
         ELSE LET vaga == FindByPk(req[r].vagaId) IN
              /\ IF vaga = NoVaga THEN Respond(r, "SlotNotFound", NoVaga)
                 ELSE IF vaga.ocupada /\ vaga.placa = req[r].placa
                 THEN Respond(r, "AlreadyReservedBySelf", NoVaga)
                 ELSE Goto(r, "save", vaga)
              /\ UNCHANGED <<vagas, veiculos, server>>

\* const vagaAlvo = await Vaga.findByPk(vagaId); 404 / 409 / 400
ReservarVagaAlvo(r) ==
    /\ pc[r] = "vagaAlvo"
    /\ \E ok \in BOOLEAN :
         IF ~ok THEN Catch(r)
         ELSE LET vaga == FindByPk(req[r].vagaId) IN
              /\ IF vaga = NoVaga THEN Respond(r, "SlotNotFound", NoVaga)
                 ELSE IF vaga.ocupada
                 THEN IF vaga.placa = req[r].placa
                      THEN Respond(r, "AlreadyReservedBySelf", NoVaga)
                      ELSE Respond(r, "SlotOccupied", NoVaga)
                 ELSE Goto(r, "save", vaga)
              /\ UNCHANGED <<vagas, veiculos, server>>

\* faulty variant of the step below: the response carries the instance as it
\* was loaded, not as it was saved
ReservarSaveStaleSnapshot(r) ==
    /\ pc[r] = "save"
    /\ \E ok \in BOOLEAN :
         IF ~ok THEN Catch(r)
         ELSE /\ vagas' = Save(vagaAlvo[r], TRUE, req[r].placa)
              /\ Respond(r, "Success", vagaAlvo[r])
              /\ UNCHANGED <<veiculos, server>>

\* faulty variant of the step below: a failed save is tried again from the
\* lookup of the target slot
ReservarSaveRetries(r) ==
    /\ pc[r] = "save"
    /\ \E ok \in BOOLEAN :
         IF ~ok THEN /\ Goto(r, "vagaAlvo", NoVaga)
                     /\ UNCHANGED <<vagas, veiculos, server>>
         ELSE /\ vagas' = Save(vagaAlvo[r], TRUE, req[r].placa)
              /\ Respond(r, "Success", vagas'[vagaAlvo[r].id])
              /\ UNCHANGED <<veiculos, server>>

\* vagaAlvo.ocupada = true; vagaAlvo.placa = placa; await vagaAlvo.save(); 200
ReservarSave(r) ==
    /\ pc[r] = "save"
    /\ \E ok \in BOOLEAN :
         IF ~ok THEN Catch(r)
         ELSE /\ vagas' = Save(vagaAlvo[r], TRUE, req[r].placa)
              /\ Respond(r, "Success",
                    [vagaAlvo[r] EXCEPT !.ocupada = TRUE, !.placa = req[r].placa])
              /\ UNCHANGED <<veiculos, server>>

\* authenticateJWT and the prologue of POST /api/vagas/:id/liberar
StartLiberarOf(r, token, id) ==
    /\ pc[r] = "idle"
    /\ IF token = NoToken THEN RespondTo(r, "liberar", "Unauthenticated", NoVaga)
       ELSE /\ pc' = [pc EXCEPT ![r] = "vaga"]
            /\ req' = [req EXCEPT ![r] = [kind |-> "liberar", userId |-> token,
                                          placa |-> Null, vagaId |-> id]]
            /\ res' = [res EXCEPT ![r] = NoRes]
            /\ vagaAlvo' = vagaAlvo
    /\ UNCHANGED <<vagas, veiculos, server>>

StartLiberar(r) ==
    \E token \in Users \cup {NoToken}, id \in ParamIds : StartLiberarOf(r, token, id)

\* faulty variant of the step below: a missing slot is reported by the catch
\* block
LiberarVagaThrowsOnMissing(r) ==
    /\ pc[r] = "vaga"
    /\ \E ok \in BOOLEAN :
         IF ~ok THEN Catch(r)
         ELSE LET vaga == FindByPk(req[r].vagaId) IN
              /\ IF vaga = NoVaga THEN Respond(r, "InfrastructureError", NoVaga)
                 ELSE IF ~vaga.ocupada THEN Respond(r, "AlreadyFree", NoVaga)
                 ELSE IF vaga.placa # Null THEN Goto(r, "veiculoNaVaga", vaga)
                 ELSE Goto(r, "liberarSave", vaga)
              /\ UNCHANGED <<vagas, veiculos, server>>

\* faulty variant of the step below: releasing a free slot answers 200
LiberarVagaIdempotent(r) ==
    /\ pc[r] = "vaga"
    /\ \E ok \in BOOLEAN :
         IF ~ok THEN Catch(r)
         ELSE LET vaga == FindByPk(req[r].vagaId) IN
              /\ IF vaga = NoVaga THEN Respond(r, "SlotNotFound", NoVaga)
                 ELSE IF ~vaga.ocupada THEN Respond(r, "Success", vaga)
                 ELSE IF vaga.placa # Null THEN Goto(r, "veiculoNaVaga", vaga)
                 ELSE Goto(r, "liberarSave", vaga)
              /\ UNCHANGED <<vagas, veiculos, server>>

\* const vaga = await Vaga.findByPk(vagaId); 404 / 400; if (vaga.placa)
LiberarVaga(r) ==
    /\ pc[r] = "vaga"
    /\ \E ok \in BOOLEAN :
         IF ~ok THEN Catch(r)
         ELSE LET vaga == FindByPk(req[r].vagaId) IN
              /\ IF vaga = NoVaga THEN Respond(r, "SlotNotFound", NoVaga)
                 ELSE IF ~vaga.ocupada THEN Respond(r, "AlreadyFree", NoVaga)
                 ELSE IF vaga.placa # Null THEN Goto(r, "veiculoNaVaga", vaga)
                 ELSE Goto(r, "liberarSave", vaga)
              /\ UNCHANGED <<vagas, veiculos, server>>

\* faulty variant of the step below: the owner of the plate is not looked up
LiberarVeiculoNaVagaSkipped(r) ==
    /\ pc[r] = "veiculoNaVaga"
    /\ \E ok \in BOOLEAN :
         IF ~ok THEN Catch(r)
         ELSE /\ Goto(r, "liberarSave", vagaAlvo[r])
              /\ UNCHANGED <<vagas, veiculos, server>>

\* const veiculoNaVaga = await Veiculo.findOne(...); 403
LiberarVeiculoNaVaga(r) ==
    /\ pc[r] = "veiculoNaVaga"
    /\ \E ok \in BOOLEAN :
         IF ~ok THEN Catch(r)
         ELSE /\ IF FindVeiculoDoUsuario(vagaAlvo[r].placa, req[r].userId) = Null
                 THEN Respond(r, "NotAuthorizedToRelease", NoVaga)
                 ELSE Goto(r, "liberarSave", vagaAlvo[r])
              /\ UNCHANGED <<vagas, veiculos, server>>

\* faulty variant of the step below: the plate stays in the released row
LiberarSaveKeepsPlaca(r) ==
    /\ pc[r] = "liberarSave"
    /\ \E ok \in BOOLEAN :
         IF ~ok THEN Catch(r)
         ELSE /\ vagas' = Save(vagaAlvo[r], FALSE, vagaAlvo[r].placa)
              /\ Respond(r, "Success", [vagaAlvo[r] EXCEPT !.ocupada = FALSE])
              /\ UNCHANGED <<veiculos, server>>

\* vaga.ocupada = false; vaga.placa = null; await vaga.save(); 200
LiberarSave(r) ==
    /\ pc[r] = "liberarSave"
    /\ \E ok \in BOOLEAN :
         IF ~ok THEN Catch(r)
         ELSE /\ vagas' = Save(vagaAlvo[r], FALSE, Null)
              /\ Respond(r, "Success",
                    [vagaAlvo[r] EXCEPT !.ocupada = FALSE, !.placa = Null])
              /\ UNCHANGED <<veiculos, server>>

\* faulty variant of the update below: the plates are left in the rows
ResetVagasKeepPlaca == [i \in VagaIds |-> [vagas[i] EXCEPT !.ocupada = FALSE]]

\* Vaga.update({ ocupada: false, placa: null }, { where: {} }): one UPDATE
\* statement over every row
ResetVagas == [i \in VagaIds |-> [vagas[i] EXCEPT !.ocupada = FALSE, !.placa = Null]]

\* POST /api/vagas/reset-para-apresentacao-agora: the route has no
\* authenticateJWT, the handler never reads the Authorization header (token);
\* affectedRows is the number of rows the UPDATE matched
ResetBy(r, token) ==
    /\ pc[r] = "idle"
    /\ \E ok \in BOOLEAN :
         IF ~ok THEN /\ RespondTo(r, "reset", "InfrastructureError", NoVaga)
                     /\ UNCHANGED <<vagas, veiculos, server>>
         ELSE /\ vagas' = ResetVagas
              /\ res' = [res EXCEPT ![r] = [op |-> "reset", kind |-> "Success",
                                            vaga |-> NoVaga,
                                            affectedRows |-> Cardinality(VagaIds),
                                            lista |-> <<>>]]
              /\ UNCHANGED <<veiculos, pc, req, vagaAlvo, server>>

Reset(r) == \E token \in Users \cup {NoToken} : ResetBy(r, token)

\* ------------------------------------------------------ POST /add-vehicle
\* authenticateJWT and the validation chain; normalize is whether the chain
\* has .trim().toUpperCase() before .isLength
StartAddVehicleStep(r, normalize) ==
    /\ pc[r] = "idle"
    /\ \E token \in Users \cup {NoToken}, raw \in RawPlacas :
         LET placa == IF normalize THEN NormalizePlaca(raw) ELSE raw IN
         IF token = NoToken THEN RespondTo(r, "addVehicle", "Unauthenticated", NoVaga)
         ELSE IF ~ValidPlaca(placa)
         THEN RespondTo(r, "addVehicle", "ValidationError", NoVaga)
         ELSE /\ pc' = [pc EXCEPT ![r] = "vehicleExists"]
              /\ req' = [req EXCEPT ![r] = [kind |-> "addVehicle", userId |-> token,
                                            placa |-> placa, vagaId |-> 0]]
              /\ res' = [res EXCEPT ![r] = NoRes]
              /\ vagaAlvo' = vagaAlvo
    /\ UNCHANGED <<vagas, veiculos, server>>

StartAddVehicle(r) == StartAddVehicleStep(r, TRUE)

\* const vehicleExistsGlobal = await Veiculo.findOne({ where: { placa } });
\* if (vehicleExistsGlobal) return res.status(409)
AddVehicleExists(r) ==
    /\ pc[r] = "vehicleExists"
    /\ \E ok \in BOOLEAN :
         IF ~ok THEN Catch(r)
         ELSE /\ IF FindVeiculo(req[r].placa) # Null
                 THEN Respond(r, "VehicleExists", NoVaga)
                 ELSE Goto(r, "create", NoVaga)
              /\ UNCHANGED <<vagas, veiculos, server>>

\* await Veiculo.create({ placa, ..., user_id }); 201.  unique is whether
\* Veiculo.placa is declared unique: the INSERT of a second row of the plate
\* then raises SequelizeUniqueConstraintError (409 in the catch block)
AddVehicleCreateStep(r, unique) ==
    /\ pc[r] = "create"
    /\ \E ok \in BOOLEAN :
         IF ~ok THEN Catch(r)
         ELSE IF unique /\ veiculos[req[r].placa] # <<>>
         THEN /\ Respond(r, "VehicleExists", NoVaga)
              /\ UNCHANGED <<vagas, veiculos, server>>
         ELSE /\ veiculos' = [veiculos EXCEPT
                                 ![req[r].placa] = Append(@, req[r].userId)]
              /\ Respond(r, "Created", NoVaga)
              /\ UNCHANGED <<vagas, server>>

AddVehicleCreate(r) == AddVehicleCreateStep(r, TRUE)

\* ------------------------------------------------------- GET /api/vagas
\* `${i}`: the decimal digits of a slot number
RECURSIVE Digits(_)
Digits(n) == IF n < 10 THEN <<n>> ELSE Append(Digits(n \div 10), n % 10)

\* the characters of vaga.nome after "Vaga ": every row is created as
\* `Vaga ${i + 1}` with id i + 1, and no route changes nome
NomeDigits(vaga) == Digits(vaga.id)

\* string comparison of ORDER BY: the first differing character decides, a
\* proper prefix sorts first
StrLess(a, b) ==
    \E k \in 1..(Len(a) + 1) :
        /\ k <= Len(b)
        /\ \A j \in 1..(k - 1) : a[j] = b[j]
        /\ (k = Len(a) + 1 \/ a[k] < b[k])

NomeLess(v, w) == StrLess(NomeDigits(v), NomeDigits(w))

\* the rows in ascending order of their sort key
RECURSIVE SortRows(_, _)
SortRows(rows, key) ==
    IF rows = {} THEN <<>>
    ELSE LET first == CHOOSE v \in rows :
                          \A w \in rows \ {v} : StrLess(key[v], key[w])
         IN <<first>> \o SortRows(rows \ {first}, key)

AllRows == {vagas[i] : i \in VagaIds}

\* faulty variant of the query below: ORDER BY id
FindAllById == SortRows(AllRows, [v \in AllRows |-> <<v.id>>])

\* Vaga.findAll({ order: [['nome', 'ASC']] }): one SELECT
FindAll == SortRows(AllRows, [v \in AllRows |-> NomeDigits(v)])

\* GET /api/vagas: authenticateJWT, findAll, res.status(200).json(vagas)
ListarVagas(r) ==
    /\ pc[r] = "idle"
    /\ \E token \in Users \cup {NoToken}, ok \in BOOLEAN :
         res' = [res EXCEPT ![r] =
                    IF token = NoToken
                    THEN [NoRes EXCEPT !.op = "listar", !.kind = "Unauthenticated"]
                    ELSE IF ~ok
                    THEN [NoRes EXCEPT !.op = "listar", !.kind = "InfrastructureError"]
                    ELSE [NoRes EXCEPT !.op = "listar", !.kind = "Success",
                                       !.lista = FindAll]]
    /\ UNCHANGED <<vagas, veiculos, pc, req, vagaAlvo, server>>

Next ==
    \/ \E r \in Reqs : StartReservar(r)
    \/ \E r \in Reqs : ReservarVeiculoDoUsuario(r)
    \/ \E r \in Reqs : ReservarVeiculoExiste(r)
    \/ \E r \in Reqs : ReservarOutraVaga(r)
    \/ \E r \in Reqs : ReservarVagaAlvo(r)
    \/ \E r \in Reqs : ReservarSave(r)
    \/ \E r \in Reqs : StartLiberar(r)
    \/ \E r \in Reqs : LiberarVaga(r)
    \/ \E r \in Reqs : LiberarVeiculoNaVaga(r)
    \/ \E r \in Reqs : LiberarSave(r)
    \/ \E r \in Reqs : Reset(r)

Spec == Init /\ [][Next]_vars

\* ------------------------------------------------------------- progress
\* The call handler r awaits settles (with a value or with an error) and the
\* event loop runs the continuation.
Continue(r) ==
    \/ ReservarVeiculoDoUsuario(r)
    \/ ReservarVeiculoExiste(r)
    \/ ReservarOutraVaga(r)
    \/ ReservarVagaAlvo(r)
    \/ ReservarSave(r)
    \/ LiberarVaga(r)
    \/ LiberarVeiculoNaVaga(r)
    \/ LiberarSave(r)

SpecLive == Init /\ [][Next]_vars /\ \A r \in Reqs : WF_vars(Continue(r))

\* ------------------------------------------------ one request at a time
SeqReq == CHOOSE r \in Reqs : TRUE

NextSeq ==
    \/ StartReservar(SeqReq)
    \/ ReservarVeiculoDoUsuario(SeqReq)
    \/ ReservarVeiculoExiste(SeqReq)
    \/ ReservarOutraVaga(SeqReq)
    \/ ReservarVagaAlvo(SeqReq)
    \/ ReservarSave(SeqReq)
    \/ StartLiberar(SeqReq)
    \/ LiberarVaga(SeqReq)
    \/ LiberarVeiculoNaVaga(SeqReq)
    \/ LiberarSave(SeqReq)
    \/ Reset(SeqReq)

SpecSeq == Init /\ [][NextSeq]_vars

\* ------------------------------------------- the server of api/index.js
\* Its reservation chain goes from the ownership lookup straight to
\* Vaga.findByPk: there is no lookup of the plate in the other slots, and
\* the server has no reset route.
ApiReservarVeiculoDoUsuario(r) == VeiculoDoUsuarioStep(r, "vagaAlvo")

NextApi ==
    \/ StartReservar(SeqReq)
    \/ ApiReservarVeiculoDoUsuario(SeqReq)
    \/ ReservarVeiculoExiste(SeqReq)
    \/ ReservarVagaAlvo(SeqReq)
    \/ ReservarSave(SeqReq)
    \/ StartLiberar(SeqReq)
    \/ LiberarVaga(SeqReq)
    \/ LiberarVeiculoNaVaga(SeqReq)
    \/ LiberarSave(SeqReq)

SpecApi == Init /\ [][NextApi]_vars

\* ------------------------------------------------ two racing Reserve calls
RaceReqs == {1, 2}

OwnedPlacas == {p \in Placas : InitVeiculos[p] # <<>>}

\* both requests have passed authentication and validation and wait for
\* their first lookup; every slot is free
InitRace(placa1, vaga1, placa2, vaga2) ==
    /\ vagas = [i \in ProvisionedIds |-> NewVaga(i)]
    /\ veiculos = InitVeiculos
    /\ pc = [r \in Reqs |-> IF r \in RaceReqs THEN "veiculoDoUsuario" ELSE "idle"]
    /\ req = [r \in Reqs |->
         IF r = 1 THEN [kind |-> "reservar", userId |-> Head(InitVeiculos[placa1]),
                        placa |-> placa1, vagaId |-> vaga1]
         ELSE IF r = 2 THEN [kind |-> "reservar", userId |-> Head(InitVeiculos[placa2]),
                             placa |-> placa2, vagaId |-> vaga2]
         ELSE NoReq]
    /\ vagaAlvo = [r \in Reqs |-> NoVaga]
    /\ res = [r \in Reqs |-> NoRes]
    /\ server = Listening

NextRace ==
    \/ \E r \in RaceReqs : ReservarVeiculoDoUsuario(r)
    \/ \E r \in RaceReqs : ReservarOutraVaga(r)
    \/ \E r \in RaceReqs : ReservarVagaAlvo(r)
    \/ \E r \in RaceReqs : ReservarSave(r)

\* same free slot, two different plates, each owned by its caller
InitRaceVaga ==
    \E v \in 1..MaxVagaId, p1 \in OwnedPlacas, p2 \in OwnedPlacas :
        p1 # p2 /\ InitRace(p1, v, p2, v)

SpecRaceVaga == InitRaceVaga /\ [][NextRace]_vars

\* same plate, sent by its owner, two different free slots
InitRacePlaca ==
    \E p \in OwnedPlacas, v1 \in 1..MaxVagaId, v2 \in 1..MaxVagaId :
        v1 # v2 /\ InitRace(p, v1, p, v2)

SpecRacePlaca == InitRacePlaca /\ [][NextRace]_vars

\* two liberar calls by the owner of the plate bound to the same occupied slot;
\* both have passed authentication and wait for Vaga.findByPk.  Another slot
\* may be held by another vehicle.
InitRaceLiberar ==
    \E v \in 1..MaxVagaId, p \in OwnedPlacas, o \in 1..MaxVagaId, q \in OwnedPlacas :
        /\ (o = v) = (q = p)
        /\ vagas = [i \in ProvisionedIds |->
                      IF i = v THEN [NewVaga(i) EXCEPT !.ocupada = TRUE, !.placa = p]
                      ELSE IF i = o THEN [NewVaga(i) EXCEPT !.ocupada = TRUE, !.placa = q]
                      ELSE NewVaga(i)]
        /\ veiculos = InitVeiculos
        /\ pc = [r \in Reqs |-> IF r \in RaceReqs THEN "vaga" ELSE "idle"]
        /\ req = [r \in Reqs |->
             IF r \in RaceReqs THEN [kind |-> "liberar", userId |-> Head(InitVeiculos[p]),
                                     placa |-> Null, vagaId |-> v]
             ELSE NoReq]
        /\ vagaAlvo = [r \in Reqs |-> NoVaga]
        /\ res = [r \in Reqs |-> NoRes]
        /\ server = Listening

NextRaceLiberar ==
    \/ \E r \in RaceReqs : LiberarVaga(r)
    \/ \E r \in RaceReqs : LiberarVeiculoNaVaga(r)
    \/ \E r \in RaceReqs : LiberarSave(r)

SpecRaceLiberar == InitRaceLiberar /\ [][NextRaceLiberar]_vars

\* --------------------------------------------------------- startServer
\* The process is launched on a database that outlives it: first on an empty
\* table, later (Restart) on whatever the handlers left in it.
Starting(flag) == [phase |-> "authenticate", erro |-> "none",
                   resetVagasOnStartup |-> flag, count |-> NoCount]

NoHandlers ==
    /\ pc' = [r \in Reqs |-> "idle"]
    /\ req' = [r \in Reqs |-> NoReq]
    /\ vagaAlvo' = [r \in Reqs |-> NoVaga]
    /\ res' = [r \in Reqs |-> NoRes]

InitStart ==
    /\ vagas = [i \in {} |-> NoVaga]
    /\ veiculos = InitVeiculos
    /\ pc = [r \in Reqs |-> "idle"]
    /\ req = [r \in Reqs |-> NoReq]
    /\ vagaAlvo = [r \in Reqs |-> NoVaga]
    /\ res = [r \in Reqs |-> NoRes]
    /\ \E flag \in BOOLEAN : server = Starting(flag)

\* faulty variant of the catch block below: the error is logged and the
\* server goes on to listen
StartupCatchKeepsGoing(call) ==
    /\ server' = [server EXCEPT !.phase = "listening", !.erro = call]
    /\ UNCHANGED <<vagas, veiculos, pc, req, vagaAlvo, res>>

\* startServer: catch (err) { ...; process.exit(1); }
StartupCatch(call) ==
    /\ server' = [server EXCEPT !.phase = "exited", !.erro = call]
    /\ UNCHANGED <<vagas, veiculos, pc, req, vagaAlvo, res>>

StartupGoto(phase) ==
    /\ server' = [server EXCEPT !.phase = phase]
    /\ UNCHANGED <<vagas, veiculos, pc, req, vagaAlvo, res>>

\* await sequelize.authenticate();
Authenticate ==
    /\ server.phase = "authenticate"
    /\ \E ok \in BOOLEAN :
         IF ok THEN StartupGoto("sync") ELSE StartupCatch("authenticate")

\* await sequelize.sync({ alter: true }); the columns already match the models
Sync ==
    /\ server.phase = "sync"
    /\ \E ok \in BOOLEAN :
         IF ok THEN StartupGoto("count") ELSE StartupCatch("sync")

\* createInitialVagas: catch (error) { console.error(...) }, and the function
\* returns normally to startServer
CreateInitialVagasCatch ==
    /\ server' = [server EXCEPT !.phase = "resetFlag", !.erro = "createInitialVagas"]
    /\ UNCHANGED <<vagas, veiculos, pc, req, vagaAlvo, res>>

\* faulty variant of the step below: the rows are (re)created whatever the count
CreateInitialVagasCountIgnored ==
    /\ server.phase = "count"
    /\ \E ok \in BOOLEAN :
         IF ~ok THEN CreateInitialVagasCatch
         ELSE /\ server' = [server EXCEPT !.phase = "resetFlag",
                                          !.count = Cardinality(VagaIds)]
              /\ vagas' = [i \in ProvisionedIds |-> NewVaga(i)]
              /\ UNCHANGED <<veiculos, pc, req, vagaAlvo, res>>

\* const count = await Vaga.count(); if (count === 0) ... else console.log
CreateInitialVagasCount ==
    /\ server.phase = "count"
    /\ \E ok \in BOOLEAN :
         IF ~ok THEN CreateInitialVagasCatch
         ELSE /\ server' = [server EXCEPT
                    !.phase = IF Cardinality(VagaIds) = 0 THEN "bulkCreate"
                              ELSE "resetFlag",
                    !.count = Cardinality(VagaIds)]
              /\ UNCHANGED <<vagas, veiculos, pc, req, vagaAlvo, res>>

\* await Vaga.bulkCreate(vagasParaCriar): one INSERT of the 15 rows, which the
\* unique index on nome rejects as a whole if a row of that name exists
CreateInitialVagasBulkCreate ==
    /\ server.phase = "bulkCreate"
    /\ \E ok \in BOOLEAN :
         IF ok /\ VagaIds = {}
         THEN /\ vagas' = [i \in ProvisionedIds |-> NewVaga(i)]
              /\ server' = [server EXCEPT !.phase = "resetFlag"]
              /\ UNCHANGED <<veiculos, pc, req, vagaAlvo, res>>
         ELSE CreateInitialVagasCatch

\* faulty variant of the step below: the slots are reset on every startup
ListenResetAlways ==
    /\ server.phase = "resetFlag"
    /\ StartupGoto("resetVagas")

\* if (process.env.RESET_VAGAS_ON_STARTUP === 'true') { ... } app.listen(port)
Listen ==
    /\ server.phase = "resetFlag"
    /\ IF server.resetVagasOnStartup THEN StartupGoto("resetVagas")
       ELSE StartupGoto("listening")

\* await Vaga.update({ ocupada: false, placa: null }, { where: {} });
\* app.listen(port)
ResetVagasOnStartup ==
    /\ server.phase = "resetVagas"
    /\ \E ok \in BOOLEAN :
         IF ~ok THEN StartupCatch("resetVagas")
         ELSE /\ vagas' = ResetVagas
              /\ server' = [server EXCEPT !.phase = "listening"]
              /\ UNCHANGED <<veiculos, pc, req, vagaAlvo, res>>

\* the process is stopped, its handlers die with it, and it is launched again
Restart ==
    /\ server.phase \in {"listening", "exited"}
    /\ \E flag \in BOOLEAN : server' = Starting(flag)
    /\ NoHandlers
    /\ UNCHANGED <<vagas, veiculos>>

NextStart ==
    \/ Authenticate
    \/ Sync
    \/ CreateInitialVagasCount
    \/ CreateInitialVagasBulkCreate
    \/ Listen
    \/ ResetVagasOnStartup
    \/ Restart
    \/ server.phase = "listening" /\ NextSeq

SpecStart == InitStart /\ [][NextStart]_vars

\* ------------------------------------- listing while a request is served
NextList ==
    \/ NextSeq
    \/ \E r \in Reqs : ListarVagas(r)

SpecList == Init /\ [][NextList]_vars

\* -------------------------- vehicles being registered next to reservations
\* One reservation request is served while the other clients register
\* vehicles
NextVeiculo ==
    \/ \E r \in Reqs \ {SeqReq} : StartAddVehicle(r)
    \/ \E r \in Reqs \ {SeqReq} : AddVehicleExists(r)
    \/ \E r \in Reqs \ {SeqReq} : AddVehicleCreate(r)
    \/ StartReservar(SeqReq)
    \/ ReservarVeiculoDoUsuario(SeqReq)
    \/ ReservarVeiculoExiste(SeqReq)
    \/ ReservarOutraVaga(SeqReq)
    \/ ReservarVagaAlvo(SeqReq)
    \/ ReservarSave(SeqReq)

SpecVeiculo == Init /\ [][NextVeiculo]_vars

\* ------------------------------------------- the server of unnamed/part_000
\* Its only write route is /add-vehicle; the validation chain does not
\* normalize the plate and Veiculo.placa is not declared unique.
Part000StartAddVehicle(r) == StartAddVehicleStep(r, FALSE)

Part000AddVehicleCreate(r) == AddVehicleCreateStep(r, FALSE)

NextPart000 ==
    \/ \E r \in Reqs : Part000StartAddVehicle(r)
    \/ \E r \in Reqs : AddVehicleExists(r)
    \/ \E r \in Reqs : Part000AddVehicleCreate(r)

SpecPart000 == Init /\ [][NextPart000]_vars

\* ------------------------------------------- reserve, then release it
\* The registry a client finds: each of the first slots Free or held by a
\* registered plate, no plate in two slots.
RoundTripConfigs ==
    {[i \in ProvisionedIds |->
         IF i <= MaxVagaId /\ f[i] # Null
         THEN [NewVaga(i) EXCEPT !.ocupada = TRUE, !.placa = f[i]]
         ELSE NewVaga(i)] :
       f \in {g \in [1..MaxVagaId -> OwnedPlacas \cup {Null}] :
                \A i, j \in 1..MaxVagaId :
                    (i # j /\ g[i] # Null) => g[i] # g[j]}}

\* a reservar request of the owner of a plate for one of the slots is past
\* validation
InitRoundTrip ==
    \E cfg \in RoundTripConfigs, s \in 1..MaxVagaId, p \in OwnedPlacas :
        /\ vagas = cfg
        /\ veiculos = InitVeiculos
        /\ pc = [r \in Reqs |-> IF r = SeqReq THEN "veiculoDoUsuario" ELSE "idle"]
        /\ req = [r \in Reqs |->
             IF r = SeqReq THEN [kind |-> "reservar", userId |-> Head(InitVeiculos[p]),
                                 placa |-> p, vagaId |-> s]
             ELSE NoReq]
        /\ vagaAlvo = [r \in Reqs |-> NoVaga]
        /\ res = [r \in Reqs |-> NoRes]
        /\ server = Listening

\* the client that got its 200 releases the slot it was given
LiberarReservada(r) ==
    /\ res[r].op = "reservar" /\ res[r].kind = "Success"
    /\ StartLiberarOf(r, UserId(res[r].vaga.placa), res[r].vaga.id)

NextRoundTrip ==
    \/ ReservarVeiculoDoUsuario(SeqReq)
    \/ ReservarOutraVaga(SeqReq)
    \/ ReservarVagaAlvo(SeqReq)
    \/ ReservarSave(SeqReq)
    \/ LiberarReservada(SeqReq)
    \/ LiberarVaga(SeqReq)
    \/ LiberarVeiculoNaVaga(SeqReq)
    \/ LiberarSave(SeqReq)

SpecRoundTrip == InitRoundTrip /\ [][NextRoundTrip]_vars

\* =============================================================== claims
\* handler r leaves the await it was suspended at
Stepped(r) == pc'[r] # pc[r]
\* handler r sends its response
Responded(r) == pc[r] # "idle" /\ pc'[r] = "idle"
\* ... and the response is not the catch block's 500
Answered(r) == Responded(r) /\ res'[r].kind # "InfrastructureError"

VagasComPlaca(placa) == {i \in VagaIds : vagas[i].ocupada /\ vagas[i].placa = placa}

\* C1: in every reachable state no plate is the bound plate of more than one
\* Occupied slot.
C1_OnePlateOneVaga ==
    \A i \in VagaIds, j \in VagaIds :
        (i # j /\ vagas[i].ocupada /\ vagas[j].ocupada)
            => vagas[i].placa # vagas[j].placa

\* both racing calls have been answered, neither by the catch block
RaceOver ==
    \A r \in RaceReqs :
        pc[r] = "idle" /\ res[r].kind \notin {"none", "InfrastructureError"}

\* C2: of two concurrent Reserve calls for the same Free slot with different
\* plates, exactly one returns success and the other fails with SlotOccupied.
C2_ExactlyOneWinsTheVaga ==
    RaceOver =>
        \E w \in RaceReqs, l \in RaceReqs :
            /\ w # l
            /\ res[w].kind = "Success"
            /\ res[l].kind = "SlotOccupied"

\* C3: of two concurrent Reserve calls by the owner for the same plate against
\* two different Free slots, exactly one succeeds, the other fails with
\* PlateAlreadyElsewhere or SlotOccupied, and the plate ends up bound to
\* exactly one slot.
C3_ExactlyOneBindsThePlaca ==
    RaceOver =>
        \E w \in RaceReqs, l \in RaceReqs :
            /\ w # l
            /\ res[w].kind = "Success"
            /\ res[l].kind \in {"PlateAlreadyElsewhere", "SlotOccupied"}
            /\ Cardinality(VagasComPlaca(res[w].vaga.placa)) = 1

\* C4: every slot is either Occupied with a non-empty bound plate or Free with
\* an absent (null) bound plate, in every reachable state.
C4_OcupadaIffPlaca ==
    \A i \in VagaIds :
        /\ vagas[i].ocupada => (vagas[i].placa # Null /\ Len(vagas[i].placa) > 0)
        /\ ~vagas[i].ocupada => vagas[i].placa = Null

\* a slot is held while another one has been reserved and released again
C4_Witness ==
    \E i \in VagaIds, r \in Reqs :
        /\ vagas[i].ocupada
        /\ res[r].op = "liberar" /\ res[r].kind = "Success"
        /\ res[r].vaga.id # i
        /\ ~vagas[res[r].vaga.id].ocupada

\* the outcome section 4.3 of the design prescribes for Reserve, its checks
\* taken in the order ownership, plate conflict, slot existence, occupancy
ExpectedReserve(userId, placa, vagaId) ==
    IF UserId(placa) = NoOwner THEN "VehicleNotFound"
    ELSE IF UserId(placa) # userId THEN "OwnershipConflict"
    ELSE IF VagasComPlaca(placa) \ {vagaId} # {} THEN "PlateAlreadyElsewhere"
    ELSE IF vagaId \notin VagaIds THEN "SlotNotFound"
    ELSE IF vagas[vagaId].ocupada /\ vagas[vagaId].placa = placa
         THEN "AlreadyReservedBySelf"
    ELSE IF vagas[vagaId].ocupada THEN "SlotOccupied"
    ELSE "Success"

\* C5: a Reserve served alone answers with the outcome of the earliest failing
\* check in the order ownership, plate conflict, slot existence, occupancy.
C5_FixedCheckOrder ==
    [][\A r \in Reqs :
          (req[r].kind = "reservar" /\ Answered(r))
              => res'[r].kind =
                     ExpectedReserve(req[r].userId, req[r].placa, req[r].vagaId)]_vars

\* the plate was found in another slot while every addressed slot 1, 2 was
\* taken: the target was occupied or missing as well
C5_Witness ==
    /\ res[SeqReq].op = "reservar"
    /\ res[SeqReq].kind = "PlateAlreadyElsewhere"
    /\ vagas[1].ocupada /\ vagas[2].ocupada

\* C6: a Reserve whose plate has no vehicle record answers VehicleNotFound, one
\* whose plate belongs to another user answers OwnershipConflict, and no step
\* of such a request changes any slot.
C6_OwnershipRejections ==
    [][\A r \in Reqs :
          (req[r].kind = "reservar" /\ Stepped(r)
                /\ UserId(req[r].placa) # req[r].userId)
              => /\ vagas' = vagas
                 /\ pc'[r] \in {"veiculoExiste", "idle"}
                 /\ Answered(r) =>
                       res'[r].kind = IF UserId(req[r].placa) = NoOwner
                                      THEN "VehicleNotFound"
                                      ELSE "OwnershipConflict"]_vars

C6_Witness ==
    \E r1 \in Reqs, r2 \in Reqs :
        /\ res[r1].op = "reservar" /\ res[r1].kind = "VehicleNotFound"
        /\ res[r2].op = "reservar" /\ res[r2].kind = "OwnershipConflict"

\* C7: a Reserve by the owner of a plate that is the bound plate of an Occupied
\* slot other than the target answers PlateAlreadyElsewhere and changes no slot.
C7_PlateAlreadyElsewhere ==
    [][\A r \in Reqs :
          (req[r].kind = "reservar" /\ Answered(r)
                /\ UserId(req[r].placa) = req[r].userId
                /\ VagasComPlaca(req[r].placa) \ {req[r].vagaId} # {})
              => /\ res'[r].kind = "PlateAlreadyElsewhere"
                 /\ vagas' = vagas]_vars

\* C8: a Reserve by the owner of a plate bound to no slot, against an id no slot
\* has, answers SlotNotFound; no step of it creates or changes a slot.
C8_SlotNotFound ==
    [][\A r \in Reqs :
          (req[r].kind = "reservar" /\ Stepped(r)
                /\ UserId(req[r].placa) = req[r].userId
                /\ req[r].vagaId \notin VagaIds)
              => /\ vagas' = vagas
                 /\ DOMAIN vagas' = DOMAIN vagas
                 /\ pc'[r] # "save"
                 /\ (Answered(r) /\ VagasComPlaca(req[r].placa) = {})
                       => res'[r].kind = "SlotNotFound"]_vars

C8_Witness ==
    \E r \in Reqs :
        /\ res[r].op = "reservar" /\ res[r].kind = "SlotNotFound"
        /\ StatusOf(res[r].kind) = 404

\* handler r inspects the target slot it has just fetched (step 5 of Reserve)
InspectsVaga(r) == pc[r] = "vagaAlvo" /\ Stepped(r) /\ ~(Responded(r) /\ ~Answered(r))

\* C9: a Reserve that finds its target Occupied with the caller's same plate is
\* rejected with AlreadyReservedBySelf (409, never a success), and the slot
\* stays Occupied with that plate.
C9_AlreadyReservedBySelf ==
    [][\A r \in Reqs :
          (InspectsVaga(r) /\ req[r].vagaId \in VagaIds
                /\ vagas[req[r].vagaId].ocupada
                /\ vagas[req[r].vagaId].placa = req[r].placa)
              => /\ Responded(r)
                 /\ res'[r].kind = "AlreadyReservedBySelf"
                 /\ StatusOf(res'[r].kind) = 409
                 /\ vagas' = vagas]_vars

C9_Witness ==
    \E r \in Reqs :
        /\ res[r].op = "reservar" /\ res[r].kind = "AlreadyReservedBySelf"
        /\ \E i \in VagaIds : vagas[i].ocupada

\* C10: a Reserve (owned plate, not parked elsewhere) that finds its target
\* Occupied with a different plate fails with SlotOccupied, and the slot keeps
\* its bound plate.
C10_SlotOccupied ==
    [][\A r \in Reqs :
          (InspectsVaga(r) /\ req[r].vagaId \in VagaIds
                /\ vagas[req[r].vagaId].ocupada
                /\ vagas[req[r].vagaId].placa # req[r].placa)
              => /\ Responded(r)
                 /\ res'[r].kind = "SlotOccupied"
                 /\ vagas' = vagas]_vars

C10_Witness ==
    \E r \in Reqs :
        /\ res[r].op = "reservar" /\ res[r].kind = "SlotOccupied"
        /\ \E i \in VagaIds : vagas[i].ocupada

\* every slot but v is as it was, and no row was added or removed
OthersUnchanged(v) ==
    /\ DOMAIN vagas' = DOMAIN vagas
    /\ \A i \in VagaIds \ {v} : vagas'[i] = vagas[i]

\* C11: a Reserve with the plate owned by the caller, bound to no other slot,
\* and the target Free succeeds; the target is then Occupied with that plate,
\* the returned snapshot equals the stored slot, every other slot is unchanged.
C11_ReserveSucceeds ==
    [][\A r \in Reqs :
          (req[r].kind = "reservar" /\ Answered(r)
                /\ ExpectedReserve(req[r].userId, req[r].placa, req[r].vagaId)
                       = "Success")
              => /\ res'[r].kind = "Success"
                 /\ vagas'[req[r].vagaId].ocupada
                 /\ vagas'[req[r].vagaId].placa = req[r].placa
                 /\ res'[r].vaga = vagas'[req[r].vagaId]
                 /\ OthersUnchanged(req[r].vagaId)]_vars

\* the answer names a slot that is stored exactly as returned, next to
\* another slot that is still held
C11_Witness ==
    /\ res[SeqReq].op = "reservar" /\ res[SeqReq].kind = "Success"
    /\ vagas[res[SeqReq].vaga.id] = res[SeqReq].vaga
    /\ \E i \in VagaIds : i # res[SeqReq].vaga.id /\ vagas[i].ocupada

OwnsPlaca(userId, placa) ==
    /\ placa \in DOMAIN veiculos
    /\ \E k \in DOMAIN veiculos[placa] : veiculos[placa][k] = userId

\* C12: a Release of an Occupied slot by the owner of its plate frees the slot,
\* clears the plate and leaves the other slots unchanged; a Release of the slot
\* while it is (still) Free answers AlreadyFree and changes nothing.
C12_ReleaseThenAlreadyFree ==
    [][\A r \in Reqs :
          (req[r].kind = "liberar" /\ Answered(r) /\ req[r].vagaId \in VagaIds)
              => /\ (vagas[req[r].vagaId].ocupada
                       /\ OwnsPlaca(req[r].userId, vagas[req[r].vagaId].placa))
                      => /\ res'[r].kind = "Success"
                         /\ ~vagas'[req[r].vagaId].ocupada
                         /\ vagas'[req[r].vagaId].placa = Null
                         /\ res'[r].vaga = vagas'[req[r].vagaId]
                         /\ OthersUnchanged(req[r].vagaId)
                 /\ ~vagas[req[r].vagaId].ocupada
                      => /\ res'[r].kind = "AlreadyFree"
                         /\ vagas' = vagas]_vars

\* a slot has been released and is Free while another slot is still held
C12_Witness ==
    /\ res[SeqReq].op = "liberar" /\ res[SeqReq].kind = "Success"
    /\ ~vagas[res[SeqReq].vaga.id].ocupada
    /\ vagas[res[SeqReq].vaga.id].placa = Null
    /\ \E i \in VagaIds : vagas[i].ocupada

\* C13: a Release of an Occupied slot by a user who does not own its bound
\* plate answers NotAuthorizedToRelease, and no step of it changes the slot.
C13_NotAuthorizedToRelease ==
    [][\A r \in Reqs :
          (req[r].kind = "liberar" /\ Stepped(r) /\ req[r].vagaId \in VagaIds
                /\ vagas[req[r].vagaId].ocupada
                /\ ~OwnsPlaca(req[r].userId, vagas[req[r].vagaId].placa))
              => /\ vagas' = vagas
                 /\ pc'[r] # "liberarSave"
                 /\ Answered(r) =>
                       /\ res'[r].kind = "NotAuthorizedToRelease"
                       /\ StatusOf(res'[r].kind) = 403]_vars

C13_Witness ==
    /\ res[SeqReq].op = "liberar" /\ res[SeqReq].kind = "NotAuthorizedToRelease"
    /\ \E i \in VagaIds : vagas[i].ocupada

\* C14: of two concurrent Release calls by the owner for the same Occupied
\* slot, exactly one returns success and the other is answered AlreadyFree.
C14_ExactlyOneReleases ==
    RaceOver =>
        \E w \in RaceReqs, l \in RaceReqs :
            /\ w # l
            /\ res[w].kind = "Success"
            /\ res[l].kind = "AlreadyFree"

\* C15: createInitialVagas run when slots already exist leaves the number of
\* slots unchanged and alters the occupancy and plate of no existing slot.
C15_ProvisioningIdempotent ==
    [][(server.phase \in {"count", "bulkCreate"} /\ VagaIds # {})
          => /\ Cardinality(DOMAIN vagas') = Cardinality(VagaIds)
             /\ \A i \in VagaIds :
                  /\ i \in DOMAIN vagas'
                  /\ vagas'[i].ocupada = vagas[i].ocupada
                  /\ vagas'[i].placa = vagas[i].placa]_vars

\* createInitialVagas has returned after counting existing slots, one of
\* which is held
C15_Witness ==
    /\ server.phase = "resetFlag"
    /\ server.count > 0
    /\ server.erro = "none"
    /\ \E i \in VagaIds : vagas[i].ocupada

\* the table right after provisioning: NumVagas rows, all Free without a
\* plate, named prefix 1 .. prefix NumVagas, no name twice
ProvisionedNamed(prefix) ==
    /\ Cardinality(DOMAIN vagas') = NumVagas
    /\ \A i \in DOMAIN vagas' : ~vagas'[i].ocupada /\ vagas'[i].placa = Null
    /\ \A i, j \in DOMAIN vagas' : i # j => vagas'[i].nome # vagas'[j].nome
    /\ {vagas'[i].nome : i \in DOMAIN vagas'}
           = {prefix \o ToString(k) : k \in 1..NumVagas}

\* the insert of createInitialVagas goes through on an empty table
BulkCreated ==
    /\ server.phase = "bulkCreate" /\ VagaIds = {}
    /\ server'.phase = "resetFlag" /\ server'.erro = "none"

\* C16 (as claimed): on first bring-up with an empty registry, provisioning
\* creates exactly 15 slots, all Free without plate, named "Slot 1" through
\* "Slot 15".
C16_ProvisionsSlots == [][BulkCreated => ProvisionedNamed("Slot ")]_vars

\* C16 (amended): on first bring-up with an empty registry, provisioning
\* creates exactly 15 slots, all Free without plate, with pairwise-distinct
\* sequential names "Vaga 1" through "Vaga 15".
C16_ProvisionsVagas == [][BulkCreated => ProvisionedNamed("Vaga ")]_vars

C16_Witness ==
    /\ server.phase = "resetFlag"
    /\ server.count = 0
    /\ server.erro = "none"
    /\ Cardinality(VagaIds) = NumVagas

\* every slot held before the step is held by the same plate after it
OccupiedKept ==
    \A i \in VagaIds :
        vagas[i].ocupada =>
            /\ i \in DOMAIN vagas'
            /\ vagas'[i].ocupada
            /\ vagas'[i].placa = vagas[i].placa

StartingUp == server.phase \notin {"listening", "exited"}

\* C17 (as claimed): a startup on existing slots never resets them: every slot
\* Occupied with plate p before the restart is still Occupied with p when the
\* server begins accepting requests.
C17_StartupNeverResets == [][StartingUp => OccupiedKept]_vars

\* C17 (amended): a startup with RESET_VAGAS_ON_STARTUP other than 'true'
\* keeps every Occupied slot Occupied with its plate; a startup with
\* RESET_VAGAS_ON_STARTUP = 'true' begins accepting requests with every slot
\* Free.
C17_StartupResetsOnlyOnFlag ==
    [][StartingUp =>
          /\ ~server.resetVagasOnStartup => OccupiedKept
          /\ (server.resetVagasOnStartup /\ server'.phase = "listening")
                => \A i \in DOMAIN vagas' :
                      ~vagas'[i].ocupada /\ vagas'[i].placa = Null]_vars

\* a relaunched server has just begun listening, a slot reserved before the
\* restart is still held
C17_Witness ==
    /\ server.phase = "listening"
    /\ server.count > 0
    /\ ~server.resetVagasOnStartup
    /\ \A r \in Reqs : pc[r] = "idle" /\ res[r] = NoRes
    /\ \E i \in VagaIds : vagas[i].ocupada

\* C18 (as claimed): startup failures are fatal: when provisioning fails or
\* storage cannot be reached the process never listens, and it never serves
\* requests with an unprovisioned registry.
C18_StartupFailuresFatal ==
    server.phase = "listening" => server.erro = "none" /\ VagaIds # {}

\* C18 (amended): a failure of authenticate, of sync or of the startup reset
\* terminates the process before it listens; a failure inside
\* createInitialVagas is only logged, and the server then listens, with an
\* empty registry if there were no slots.
C18_FatalExceptProvisioning ==
    /\ server.erro \in {"authenticate", "sync", "resetVagas"}
          => server.phase = "exited"
    /\ server.phase = "exited"
          => server.erro \in {"authenticate", "sync", "resetVagas"}
    /\ server.phase = "listening"
          => server.erro \in {"none", "createInitialVagas"}
    /\ (server.phase = "listening" /\ server.erro = "none") => VagaIds # {}

\* the server listens after createInitialVagas failed on an empty table
C18_Witness ==
    /\ server.phase = "listening"
    /\ server.erro = "createInitialVagas"
    /\ VagaIds = {}

\* C19: a reset request that carries no verified identity never changes the
\* occupancy or the plate of any slot.
C19_ResetNeedsAuthorization ==
    [][\A r \in Reqs :
          ResetBy(r, NoToken)
              => \A i \in VagaIds :
                    /\ vagas'[i].ocupada = vagas[i].ocupada
                    /\ vagas'[i].placa = vagas[i].placa]_vars

\* C20: a reset that completes successfully leaves, in one step, every slot
\* Free without plate, reports the number of slots it affected, creates and
\* removes no slot, and changes no identifier and no display name.
C20_ResetFrame ==
    [][\A r \in Reqs :
          (Reset(r) /\ res'[r].kind = "Success")
              => /\ DOMAIN vagas' = DOMAIN vagas
                 /\ \A i \in VagaIds :
                      /\ ~vagas'[i].ocupada
                      /\ vagas'[i].placa = Null
                      /\ vagas'[i].id = vagas[i].id
                      /\ vagas'[i].nome = vagas[i].nome
                 /\ res'[r].affectedRows = Cardinality(VagaIds)]_vars

\* one request was answered with a reservation, another with a reset, and
\* the reserved slot is Free
C20_Witness ==
    \E r1 \in Reqs, r2 \in Reqs :
        /\ res[r1].op = "reservar" /\ res[r1].kind = "Success"
        /\ res[r2].op = "reset" /\ res[r2].kind = "Success"
        /\ res[r2].affectedRows = NumVagas
        /\ ~vagas[res[r1].vaga.id].ocupada
        /\ vagas[res[r1].vaga.id].placa = Null

\* C21: the listing returns every slot exactly once, in ascending order of
\* display name, each as it is stored in the one state the query read, and
\* changes no slot.
C21_ListIsSortedSnapshot ==
    [][\A r \in Reqs :
          (res'[r].op = "listar" /\ res'[r].kind = "Success" /\ ListarVagas(r))
              => LET l == res'[r].lista IN
                 /\ Len(l) = Cardinality(VagaIds)
                 /\ \A i \in VagaIds :
                      Cardinality({k \in DOMAIN l : l[k].id = i}) = 1
                 /\ \A k \in DOMAIN l : l[k] = vagas[l[k].id]
                 /\ \A k \in 1..(Len(l) - 1) : NomeLess(l[k], l[k + 1])
                 /\ \A i \in VagaIds : vagas[i].nome = "Vaga " \o ToString(i)
                 /\ vagas' = vagas]_vars

\* a listing that shows a held slot, "Vaga 10" right after "Vaga 1"
C21_Witness ==
    \E r \in Reqs :
        /\ res[r].op = "listar" /\ res[r].kind = "Success"
        /\ Len(res[r].lista) = NumVagas
        /\ res[r].lista[1].nome = "Vaga 1"
        /\ res[r].lista[2].nome = "Vaga 10"
        /\ \E k \in DOMAIN res[r].lista : res[r].lista[k].ocupada

\* C22: the ownership check of Reserve answers OwnershipConflict only if the
\* plate has a vehicle record whose owner differs from the caller, also when
\* the caller's own add-vehicle commits between the two lookups.
C22_ConflictOnlyWithAnotherOwner ==
    [][\A r \in Reqs :
          (req[r].kind = "reservar" /\ Responded(r)
                /\ res'[r].kind = "OwnershipConflict")
              => \E k \in DOMAIN veiculos[req[r].placa] :
                    veiculos[req[r].placa][k] # req[r].userId]_vars

\* C23: after any add-vehicle requests, concurrent or not, each plate has at
\* most one vehicle record.
C23_OneRecordPerPlaca == \A p \in DOMAIN veiculos : Len(veiculos[p]) <= 1

\* C28: the bound plate of every Occupied slot has a vehicle record, and a
\* slot only ever becomes bound by a Reserve request of the one user who owns
\* the plate.
C28_BoundPlateOwnedByReserver ==
    /\ [](\A i \in VagaIds :
            vagas[i].ocupada =>
                /\ vagas[i].placa \in DOMAIN veiculos
                /\ veiculos[vagas[i].placa] # <<>>)
    /\ [][\A i \in VagaIds :
            (vagas'[i] # vagas[i] /\ vagas'[i].ocupada)
                => \E r \in Reqs :
                      /\ req[r].kind = "reservar"
                      /\ req[r].vagaId = i
                      /\ vagas'[i].placa = req[r].placa
                      /\ veiculos[req[r].placa] = <<req[r].userId>>]_vars

\* a slot is held by the plate that was registered after startup
C28_Witness ==
    \E i \in VagaIds :
        /\ vagas[i].ocupada
        /\ InitVeiculos[vagas[i].placa] = <<>>
        /\ veiculos[vagas[i].placa] # <<>>

\* C24: a Reserve never overwrites an occupied slot: when the target is
\* Occupied at the moment of the write, the write does not take effect, the
\* occupant's plate is preserved and the caller is answered SlotOccupied.
C24_ReserveNeverOverwrites ==
    [][\A r \in Reqs :
          (req[r].kind = "reservar" /\ pc[r] = "save" /\ Stepped(r)
                /\ vagas[req[r].vagaId].ocupada)
              => /\ vagas' = vagas
                 /\ Answered(r) => res'[r].kind = "SlotOccupied"]_vars

\* C25: the write of a Release by user u only ever clears a slot whose bound
\* plate, at the moment of the write, is owned by u.
C25_ReleaseClearsOnlyOwnPlaca ==
    [][\A r \in Reqs :
          (req[r].kind = "liberar" /\ pc[r] = "liberarSave" /\ Stepped(r)
                /\ vagas[req[r].vagaId].ocupada
                /\ ~OwnsPlaca(req[r].userId, vagas[req[r].vagaId].placa))
              => vagas'[req[r].vagaId] = vagas[req[r].vagaId]]_vars

\* how far along its chain of awaits a handler is
Rank(label) ==
    CASE label = "idle" -> 0
      [] label \in {"veiculoDoUsuario", "vaga"} -> 1
      [] label \in {"veiculoExiste", "veiculoNaVaga"} -> 2
      [] label = "outraVaga" -> 3
      [] label = "vagaAlvo" -> 4
      [] label \in {"save", "liberarSave"} -> 5

Outcomes ==
    {"Success", "VehicleNotFound", "OwnershipConflict", "PlateAlreadyElsewhere",
     "SlotNotFound", "AlreadyReservedBySelf", "SlotOccupied", "AlreadyFree",
     "NotAuthorizedToRelease", "InfrastructureError"}

\* C26: every authenticated Reserve or Release whose storage calls all return
\* eventually produces one terminal outcome; the handler never goes back to
\* an earlier call (no retry) and writes slot state at most once, in the step
\* that answers.
C26_OneTerminalOutcome ==
    /\ \A r \in Reqs : (pc[r] # "idle") ~> (pc[r] = "idle")
    /\ [][\A r \in Reqs :
            (pc[r] # "idle" /\ Stepped(r))
                => /\ pc'[r] # "idle" => Rank(pc'[r]) > Rank(pc[r])
                   /\ vagas' # vagas => Responded(r)
                   /\ Responded(r) =>
                         /\ res[r] = NoRes
                         /\ res'[r].kind \in Outcomes
                         /\ req'[r] = NoReq]_vars

\* every request has ended, one with a success and one in the catch block
C26_Witness ==
    /\ \A r \in Reqs : pc[r] = "idle" /\ res[r].op \in {"reservar", "liberar"}
    /\ \E r \in Reqs : res[r].kind = "Success"
    /\ \E r \in Reqs : res[r].kind = "InfrastructureError"

\* the awaited call of handler r returns a value and the handler goes on
\* without entering its catch block
ContinueWithoutError(r) ==
    Continue(r) /\ (pc'[r] = "idle" => res'[r].kind # "InfrastructureError")

\* C27: a Reserve or Release whose storage call raises ends with
\* InfrastructureError, a status no business outcome has, and has written no
\* slot; no business condition forces the InfrastructureError answer: when
\* the awaited call returns, the handler can go on without it.
C27_InfrastructureErrorOnlyOnFailure ==
    /\ [][\A r \in Reqs :
            (pc[r] # "idle" /\ Stepped(r))
                => /\ Catch(r) <=> (Responded(r)
                                     /\ res'[r].kind = "InfrastructureError")
                   /\ Catch(r) =>
                         /\ vagas' = vagas /\ veiculos' = veiculos
                         /\ \A k \in Outcomes \ {"InfrastructureError"} :
                              StatusOf(k) # StatusOf(res'[r].kind)
                   /\ ~Responded(r) => vagas' = vagas]_vars
    /\ [](\A r \in Reqs : pc[r] # "idle" => ENABLED ContinueWithoutError(r))

\* one request ended in the catch block while a slot is held
C27_Witness ==
    \E r \in Reqs :
        /\ pc[r] = "idle"
        /\ res[r].op \in {"reservar", "liberar"}
        /\ res[r].kind = "InfrastructureError"
        /\ \E i \in VagaIds : vagas[i].ocupada

\* the row handler r loaded, if it has loaded one, is still the stored row
Uninterrupted(r) ==
    pc[r] = "vaga" \/ vagaAlvo[r] = vagas[req[r].vagaId]

\* C29: in every reachable state every Occupied slot carries a plate that has
\* an owner; a Release of the slot by that owner which no other request
\* interfered with, once answered, has succeeded and left the slot Free; and
\* no Release goes from loading the slot to the write without the ownership
\* lookup.
C29_NoSlotStuck ==
    /\ [](\A i \in VagaIds :
            vagas[i].ocupada =>
                /\ vagas[i].placa # Null
                /\ \E u \in Users : OwnsPlaca(u, vagas[i].placa))
    /\ [][\A r \in Reqs :
            /\ ~(pc[r] = "vaga" /\ pc'[r] = "liberarSave")
            /\ (req[r].kind = "liberar" /\ Answered(r)
                   /\ req[r].vagaId \in VagaIds
                   /\ vagas[req[r].vagaId].ocupada
                   /\ OwnsPlaca(req[r].userId, vagas[req[r].vagaId].placa)
                   /\ Uninterrupted(r))
                 => /\ res'[r].kind = "Success"
                    /\ ~vagas'[req[r].vagaId].ocupada]_vars

\* the holder of a slot is about to write its release
C29_Witness ==
    /\ pc[SeqReq] = "liberarSave"
    /\ vagas[req[SeqReq].vagaId].ocupada
    /\ OwnsPlaca(req[SeqReq].userId, vagas[req[SeqReq].vagaId].placa)
    /\ Uninterrupted(SeqReq)
    /\ \E r \in Reqs \ {SeqReq} : pc[r] # "idle"

\* the Release that followed the successful Reserve has succeeded
RoundTripDone ==
    pc[SeqReq] = "idle" /\ res[SeqReq].op = "liberar" /\ res[SeqReq].kind = "Success"

\* C30: from a state in which slot s is Free, a successful Reserve(u, p, s)
\* immediately followed by a successful Release(u, s) leaves every slot's
\* occupancy and bound plate as they were before the Reserve.
C30_RoundTrip ==
    \A cfg \in RoundTripConfigs :
        (vagas = cfg) =>
            [](RoundTripDone =>
                 /\ DOMAIN vagas = DOMAIN cfg
                 /\ \A i \in DOMAIN cfg :
                      /\ vagas[i].ocupada = cfg[i].ocupada
                      /\ vagas[i].placa = cfg[i].placa)

\* the round trip is over next to a slot that another vehicle holds
C30_Witness ==
    /\ RoundTripDone
    /\ ~vagas[res[SeqReq].vaga.id].ocupada
    /\ \E i \in VagaIds : vagas[i].ocupada

====
